---- MODULE Spec2Model ----
(***************************************************************************)
(* Retro-Analog Terminal: the credential gate, the generation flow, the    *)
(* typewriter reveal and the connectivity diagnostics of src/script.js,    *)
(* together with the earlier build of the same script kept in              *)
(* src/unnamed/part_000 (no connectivity check, no diagnostics, the        *)
(* response body parsed before the status is looked at).                   *)
(*                                                                         *)
(* Strings that the code trims, indexes or grows character by character    *)
(* are sequences of one-character strings; the display surface is the      *)
(* sequence of the chunks appended to it (one character per typewriter     *)
(* tick, one line per diagnostics log call).                               *)
(*                                                                         *)
(* One action is one run of a handler up to its next suspension point      *)
(* (await / timer), as the single-threaded event loop runs it.             *)
(***************************************************************************)
EXTENDS Integers, Sequences, FiniteSets, TLC

(***************************************************************************)
(* Bounds of the model.                                                    *)
(***************************************************************************)
\* executeTerminalTask and runDiagnostics are called at most this many times
\* in a behaviour, counted together
MaxRuns == 2
\* runDiagnostics is called at most this many times in a behaviour where
\* its runs are not meant to overlap
MaxDiagRuns == 1
\* generated texts have this many characters
MaxTextLen == 2
\* the credential is reset at most this many times in a behaviour
MaxResets == 2
\* executeTerminalTask is called at most this many times where the
\* credential gate is exercised
MaxGateCalls == 1

(***************************************************************************)
(* Values.                                                                 *)
(***************************************************************************)
\* the two builds of the script under src/
Builds == {"script.js", "part_000"}

\* window.location.protocol
Protocols == {"https:", "file:"}

Whitespace == {" "}

\* raw values typed into the credential field
RawKeys == {<<>>, <<" ">>, <<" ", "t">>, <<"k", " ">>}

\* raw values typed into the prompt field
RawPrompts == {<<>>, <<" ">>, <<" ", "h", " ">>}

Alphabet1 == <<"A", "B", "C", "D", "E">>

Alphabet2 == <<"X", "Y", "Z", "W", "V">>

\* non-empty generated texts the backend may return
Texts == {SubSeq(Alphabet1, 1, MaxTextLen), SubSeq(Alphabet2, 1, MaxTextLen)}

(***************************************************************************)
(* String.prototype.trim                                                   *)
(***************************************************************************)
RECURSIVE TrimLeft(_)
TrimLeft(s) ==
    IF s = <<>> THEN <<>>
    ELSE IF Head(s) \in Whitespace THEN TrimLeft(Tail(s))
    ELSE s

RECURSIVE TrimRight(_)
TrimRight(s) ==
    IF s = <<>> THEN <<>>
    ELSE IF s[Len(s)] \in Whitespace THEN TrimRight(SubSeq(s, 1, Len(s) - 1))
    ELSE s

\* the value used as typed
NoTrim(s) == s

trim(s) == TrimRight(TrimLeft(s))

\* style.display of an element: shown unless 'none'
Visible(display) == display # "none"

(***************************************************************************)
(* Fixed display strings.                                                  *)
(***************************************************************************)
EmptyPromptMsg == "CMD_ERROR: PLS ENTER NEURAL PROMPT"

OfflineMsg == "OFFLINE_ERROR: NO_INTERNET_DETECTED"

AuthDeniedMsg == "AUTH_DENIED: INVALID_TOKEN"

RateLimitedMsg == "BANDWIDTH_ERR: LIMIT_REACHED"

ModelLoadingMsg == "HUB_OVERLOAD: MODEL_LOADING"

EmptyResultMsg == "EMPTY_DATA_BUFFER: TRY_AGAIN"

\* message of the TypeError a rejected fetch carries
FailedToFetch == "Failed to fetch"

ConnErrorMsg == "CONN_ERROR: HUB_UNREACHABLE (CHECK FIREWALL/ANTIVIRUS)"

UnknownHardwareMsg == "UNKNOWN_HARDWARE_ERROR"

\* message of the SyntaxError response.json() rejects with on a non-JSON body
JsonSyntaxErrorMsg == "SyntaxError: Unexpected token in JSON"

\* message of the TypeError raised by reading a property of undefined / null
PropertyTypeErrorMsg == "TypeError: Cannot read properties of undefined"

VARIABLES
    build,            \* which build of the script the page loaded
    onLine,           \* navigator.onLine
    hfApiKey,         \* the stored credential
    apiKeyInput,      \* apiKeyInput.value
    apiModal,         \* apiModal.style.display
    appContainer,     \* appContainer.style.display
    focused,          \* the element last given focus by the script
    alertOpen,        \* a blocking alert() is on screen
    promptInput,      \* promptInput.value
    generateBtn,      \* generateBtn.disabled
    btnText,          \* btnText.style.display
    loader,           \* loader.style.display
    errorContainer,   \* errorContainer.style.display
    errorMessage,     \* errorMessage.textContent
    bootStatus,       \* bootStatus.style.display
    outputContainer,  \* outputContainer.style.display
    outputText,       \* outputText.textContent, as the chunks appended to it
    scrollPinned,     \* glass.scrollTop = glass.scrollHeight
    tasks,            \* executeTerminalTask calls suspended at await fetch
    reveals,          \* typewriterType calls: target, index, timers
    diags,            \* runDiagnostics calls: position and lines logged
    calls,            \* number of executeTerminalTask calls so far
    fetches,          \* number of POSTs issued to API_URL so far
    diagRuns,         \* number of runDiagnostics calls so far
    resets            \* number of credential resets so far

gateVars == <<hfApiKey, apiKeyInput, apiModal, appContainer, focused, alertOpen>>

envVars == <<build, onLine>>

buttonVars == <<generateBtn, btnText, loader>>

errorVars == <<errorContainer, errorMessage>>

panelVars == <<bootStatus, outputContainer>>

screenVars == <<outputText, scrollPinned, reveals>>

countVars == <<calls, fetches, diagRuns, resets>>

vars ==
    <<build, onLine, hfApiKey, apiKeyInput, apiModal, appContainer,
      focused, alertOpen, promptInput, generateBtn, btnText, loader, errorContainer,
      errorMessage, bootStatus, outputContainer, outputText, scrollPinned,
      tasks, reveals, diags, calls, fetches, diagRuns, resets>>

(***************************************************************************)
(* The page as loaded: no credential, the entry modal shown over a hidden  *)
(* dashboard, the status panel shown, output and error panels hidden.      *)
(***************************************************************************)
InitialModalDisplay == "flex"

InitialAppDisplay == "none"

InitialBootDisplay == "flex"

InitialOutputDisplay == "none"

InitialErrorDisplay == "none"

Init ==
    /\ build \in Builds
    /\ onLine \in BOOLEAN
    /\ hfApiKey = <<>>
    /\ apiKeyInput = <<>>
    /\ apiModal = InitialModalDisplay
    /\ appContainer = InitialAppDisplay
    /\ focused = "none"
    /\ alertOpen = FALSE
    /\ promptInput = <<>>
    /\ generateBtn = FALSE
    /\ btnText = "inline-block"
    /\ loader = "none"
    /\ errorContainer = InitialErrorDisplay
    /\ errorMessage = ""
    /\ bootStatus = InitialBootDisplay
    /\ outputContainer = InitialOutputDisplay
    /\ outputText = <<>>
    /\ scrollPinned = TRUE
    /\ tasks = {}
    /\ reveals = {}
    /\ diags = {}
    /\ calls = 0
    /\ fetches = 0
    /\ diagRuns = 0
    /\ resets = 0

\* no alert() is blocking the event loop
Running == ~alertOpen

(***************************************************************************)
(* The environment: the user types, the connectivity flag flips.           *)
(***************************************************************************)
TypeKey(raw) ==
    /\ Running
    /\ Visible(apiModal)
    /\ apiKeyInput # raw
    /\ apiKeyInput' = raw
    /\ UNCHANGED <<envVars, hfApiKey, apiModal, appContainer, focused,
                   alertOpen, promptInput, buttonVars, errorVars, panelVars, screenVars,
                   tasks, diags, countVars>>

TypePrompt(raw) ==
    /\ Running
    /\ Visible(appContainer)
    /\ promptInput # raw
    /\ promptInput' = raw
    /\ UNCHANGED <<envVars, gateVars, buttonVars, errorVars, panelVars,
                   screenVars, tasks, diags, countVars>>

ConnectivityChange ==
    /\ Running
    /\ onLine' = ~onLine
    /\ UNCHANGED <<build, gateVars, promptInput, buttonVars,
                   errorVars, panelVars, screenVars, tasks, diags, countVars>>

\* the user dismisses the alert
DismissAlert ==
    /\ alertOpen
    /\ alertOpen' = FALSE
    /\ UNCHANGED <<envVars, hfApiKey, apiKeyInput, apiModal, appContainer,
                   focused, promptInput, buttonVars, errorVars, panelVars,
                   screenVars, tasks, diags, countVars>>

(***************************************************************************)
(* Credential gate.                                                        *)
(***************************************************************************)
\* as submitCredential, with the field's value used untrimmed
submitCredentialUntrimmed ==
    LET key == apiKeyInput IN
    IF key = <<>>
    THEN /\ alertOpen' = TRUE
         /\ UNCHANGED <<envVars, hfApiKey, apiKeyInput, apiModal, appContainer,
                        focused, promptInput, buttonVars, errorVars, panelVars,
                        screenVars, tasks, diags, countVars>>
    ELSE /\ hfApiKey' = key
         /\ apiModal' = "none"
         /\ appContainer' = "flex"
         /\ focused' = "promptInput"
         /\ UNCHANGED <<envVars, apiKeyInput, alertOpen, promptInput,
                        buttonVars, errorVars, panelVars, screenVars, tasks,
                        diags, countVars>>

\* as submitCredential, without the check for an empty value
submitCredentialUnchecked ==
    /\ hfApiKey' = trim(apiKeyInput)
    /\ apiModal' = "none"
    /\ appContainer' = "flex"
    /\ focused' = "promptInput"
    /\ UNCHANGED <<envVars, apiKeyInput, alertOpen, promptInput, buttonVars,
                   errorVars, panelVars, screenVars, tasks, diags, countVars>>

\* saveKeyBtn click listener
submitCredential ==
    LET key == trim(apiKeyInput) IN
    IF key = <<>>
    THEN \* alert(...); return
        /\ alertOpen' = TRUE
        /\ UNCHANGED <<envVars, hfApiKey, apiKeyInput, apiModal, appContainer,
                       focused, promptInput, buttonVars, errorVars, panelVars,
                       screenVars, tasks, diags, countVars>>
    ELSE
        /\ hfApiKey' = key
        /\ apiModal' = "none"
        /\ appContainer' = "flex"
        /\ focused' = "promptInput"
        /\ UNCHANGED <<envVars, apiKeyInput, alertOpen, promptInput, buttonVars,
                       errorVars, panelVars, screenVars, tasks, diags,
                       countVars>>

\* as resetCredential, with the stored credential left in place
resetCredentialKeepsKey ==
    /\ resets < MaxResets
    /\ resets' = resets + 1
    /\ appContainer' = "none"
    /\ apiModal' = "flex"
    /\ apiKeyInput' = <<>>
    /\ focused' = "apiKeyInput"
    /\ UNCHANGED <<envVars, hfApiKey, alertOpen, promptInput, buttonVars,
                   errorVars, panelVars, screenVars, tasks, diags, calls,
                   fetches, diagRuns>>

\* as resetCredential, with the dashboard left on screen
resetCredentialKeepsDashboard ==
    /\ resets < MaxResets
    /\ resets' = resets + 1
    /\ hfApiKey' = <<>>
    /\ apiModal' = "flex"
    /\ apiKeyInput' = <<>>
    /\ focused' = "apiKeyInput"
    /\ UNCHANGED <<envVars, appContainer, alertOpen, promptInput, buttonVars,
                   errorVars, panelVars, screenVars, tasks, diags, calls,
                   fetches, diagRuns>>

\* resetKeyBtn click listener
resetCredential ==
    /\ resets < MaxResets
    /\ resets' = resets + 1
    /\ hfApiKey' = <<>>
    /\ appContainer' = "none"
    /\ apiModal' = "flex"
    /\ apiKeyInput' = <<>>
    /\ focused' = "apiKeyInput"
    /\ UNCHANGED <<envVars, alertOpen, promptInput, buttonVars, errorVars, panelVars,
                   screenVars, tasks, diags, calls, fetches, diagRuns>>

\* a click on the save button, which sits in the entry modal
saveKeyBtnClick ==
    /\ Running
    /\ Visible(apiModal)
    /\ submitCredential

\* Enter in the credential field: saveKeyBtn.click()
apiKeyInputKeypress ==
    /\ Running
    /\ Visible(apiModal)
    /\ submitCredential

\* a click on the reset button, which sits in the dashboard
resetKeyBtnClick ==
    /\ Running
    /\ Visible(appContainer)
    /\ resetCredential

(***************************************************************************)
(* Responses of the inference endpoint.                                    *)
(***************************************************************************)
Statuses == {200, 401, 429, 503, 500}

\* response.ok
Ok(status) == status >= 200 /\ status <= 299

\* data.error when the body carries none (undefined, or a falsy value)
NoError == ""

\* objects of a JSON body: generated_text may be missing, error may be missing
Objects ==
    {[has_text |-> FALSE, generated_text |-> <<>>, error |-> e] :
        e \in {NoError, "E"}}
    \cup {[has_text |-> TRUE, generated_text |-> t, error |-> NoError] :
            t \in Texts \cup {<<>>}}

\* a body that is not JSON
NotJson == [json |-> FALSE, isArray |-> FALSE, elems |-> <<>>]

\* bodies: not JSON, a single object, an empty or a one-element array
Bodies ==
    {NotJson}
    \cup {[json |-> TRUE, isArray |-> FALSE, elems |-> <<o>>] : o \in Objects}
    \cup {[json |-> TRUE, isArray |-> TRUE, elems |-> <<>>]}
    \cup {[json |-> TRUE, isArray |-> TRUE, elems |-> <<o>>] :
            o \in {x \in Objects : x.error = NoError}}

\* how a fetch settles: it rejects, or it resolves with a response
Outcomes ==
    {[rejected |-> TRUE, status |-> 0, body |-> NotJson]}
    \cup {[rejected |-> FALSE, status |-> s, body |-> b] :
            s \in Statuses, b \in Bodies}

\* what executeTerminalTask makes of a settled request
Failure(msg) == [reveal |-> FALSE, msg |-> msg, text |-> <<>>]

Success(text) == [reveal |-> TRUE, msg |-> "", text |-> text]

\* data.error of a parsed body (an array has no such property)
ErrorOf(body) ==
    IF body.json /\ ~body.isArray THEN body.elems[1].error ELSE NoError

\* script.js: the message for a response that is not ok; a body that is not
\* JSON was replaced by {} before
HttpErrorMessage(status, body) ==
    IF status = 401 THEN AuthDeniedMsg
    ELSE IF status = 429 THEN RateLimitedMsg
    ELSE IF status = 503 THEN ModelLoadingMsg
    ELSE IF ErrorOf(body) # NoError THEN ErrorOf(body)
    ELSE "HTTP_ERR_" \o ToString(status)

\* part_000: the message for a response that is not ok, its body parsed
HttpErrorMessageEarly(status, body) ==
    IF status = 401 THEN AuthDeniedMsg
    ELSE IF status = 429 THEN RateLimitedMsg
    ELSE IF ErrorOf(body) # NoError THEN ErrorOf(body)
    ELSE UnknownHardwareMsg

\* as ExtractText, with only a missing text refused
ExtractTextIfPresent(body) ==
    IF body.isArray /\ body.elems = <<>>
    THEN Failure(PropertyTypeErrorMsg)
    ELSE LET o == body.elems[1] IN
         IF ~o.has_text
         THEN Failure(EmptyResultMsg)
         ELSE Success(o.generated_text)

\* Array.isArray(data) ? data[0].generated_text : data.generated_text,
\* then the check for a falsy text
ExtractText(body) ==
    IF body.isArray /\ body.elems = <<>>
    THEN Failure(PropertyTypeErrorMsg)
    ELSE LET o == body.elems[1] IN
         IF ~o.has_text \/ o.generated_text = <<>>
         THEN Failure(EmptyResultMsg)
         ELSE Success(o.generated_text)

\* script.js lines 106-151: from the settled fetch to the throw or the reveal
TaskResult(outcome) ==
    IF outcome.rejected THEN Failure(FailedToFetch)
    ELSE IF ~Ok(outcome.status)
    THEN Failure(HttpErrorMessage(outcome.status, outcome.body))
    ELSE IF ~outcome.body.json THEN Failure(JsonSyntaxErrorMsg)
    ELSE ExtractText(outcome.body)

\* part_000 lines 101-135: the body is parsed before the status is read
TaskResultEarly(outcome) ==
    IF outcome.rejected THEN Failure(FailedToFetch)
    ELSE IF ~outcome.body.json THEN Failure(JsonSyntaxErrorMsg)
    ELSE IF ~Ok(outcome.status)
    THEN Failure(HttpErrorMessageEarly(outcome.status, outcome.body))
    ELSE ExtractText(outcome.body)

\* the message the catch block displays for a caught error
DisplayMsg(msg) ==
    IF build = "script.js" /\ msg = FailedToFetch THEN ConnErrorMsg ELSE msg

(***************************************************************************)
(* UI helpers.                                                             *)
(***************************************************************************)
setLoading(isLoading) ==
    /\ generateBtn' = isLoading
    /\ btnText' = IF isLoading THEN "none" ELSE "inline-block"
    /\ loader' = IF isLoading THEN "inline-block" ELSE "none"

showError(msg) ==
    /\ errorMessage' = msg
    /\ errorContainer' = "block"

hideError ==
    /\ errorContainer' = "none"
    /\ UNCHANGED errorMessage

\* as CatchFinally, without the finally block
CatchNoFinally(msg) ==
    /\ showError(DisplayMsg(msg))
    /\ bootStatus' = "flex"
    /\ UNCHANGED buttonVars

\* catch (error) { ... } finally { setLoading(false) }
CatchFinally(msg) ==
    /\ showError(DisplayMsg(msg))
    /\ bootStatus' = "flex"
    /\ setLoading(FALSE)

(***************************************************************************)
(* Reveal engine.                                                          *)
(***************************************************************************)
\* typewriterType(outputText, text): the surface is cleared, the scroll
\* interval set, and type() runs once at once; id numbers the reveals in the
\* order they start
typewriterType(id, text) ==
    IF Len(text) > 0
    THEN /\ outputText' = <<text[1]>>
         /\ scrollPinned' = FALSE
         /\ reveals' = reveals \cup
                {[id |-> id, text |-> text, i |-> 1,
                  timer |-> TRUE, scrollInterval |-> TRUE]}
    ELSE /\ outputText' = <<>>
         /\ scrollPinned' = FALSE
         /\ reveals' = reveals \cup
                {[id |-> id, text |-> text, i |-> 0,
                  timer |-> FALSE, scrollInterval |-> FALSE]}

\* as type, with the character read one place too early
typeOffByOne(r) ==
    /\ Running
    /\ r \in reveals
    /\ r.timer
    /\ IF r.i < Len(r.text)
       THEN /\ outputText' = Append(outputText, r.text[r.i])
            /\ scrollPinned' = FALSE
            /\ reveals' = (reveals \ {r}) \cup {[r EXCEPT !.i = r.i + 1]}
       ELSE /\ reveals' = (reveals \ {r}) \cup
                    {[r EXCEPT !.timer = FALSE, !.scrollInterval = FALSE]}
            /\ UNCHANGED <<outputText, scrollPinned>>
    /\ UNCHANGED <<envVars, gateVars, promptInput, buttonVars, errorVars,
                   panelVars, tasks, diags, countVars>>

\* as type, without the clearInterval
typeKeepsInterval(r) ==
    /\ Running
    /\ r \in reveals
    /\ r.timer
    /\ IF r.i < Len(r.text)
       THEN /\ outputText' = Append(outputText, r.text[r.i + 1])
            /\ scrollPinned' = FALSE
            /\ reveals' = (reveals \ {r}) \cup {[r EXCEPT !.i = r.i + 1]}
       ELSE /\ reveals' = (reveals \ {r}) \cup {[r EXCEPT !.timer = FALSE]}
            /\ UNCHANGED <<outputText, scrollPinned>>
    /\ UNCHANGED <<envVars, gateVars, promptInput, buttonVars, errorVars,
                   panelVars, tasks, diags, countVars>>

\* the timeout of a reveal fires: type()
type(r) ==
    /\ Running
    /\ r \in reveals
    /\ r.timer
    /\ IF r.i < Len(r.text)
       THEN /\ outputText' = Append(outputText, r.text[r.i + 1])
            /\ scrollPinned' = FALSE
            /\ reveals' = (reveals \ {r}) \cup {[r EXCEPT !.i = r.i + 1]}
       ELSE /\ reveals' = (reveals \ {r}) \cup
                    {[r EXCEPT !.timer = FALSE, !.scrollInterval = FALSE]}
            /\ UNCHANGED <<outputText, scrollPinned>>
    /\ UNCHANGED <<envVars, gateVars, promptInput, buttonVars, errorVars,
                   panelVars, tasks, diags, countVars>>

\* the scroll interval of a reveal fires
scrollTick(r) ==
    /\ Running
    /\ r \in reveals
    /\ r.scrollInterval
    /\ scrollPinned' = TRUE
    /\ UNCHANGED <<envVars, gateVars, promptInput, buttonVars, errorVars,
                   panelVars, outputText, reveals, tasks, diags, countVars>>

(***************************************************************************)
(* Generation flow.                                                        *)
(***************************************************************************)
\* as OfflineCheck, with the connectivity flag never looked at
NoOfflineCheck == FALSE

\* script.js only: if (!navigator.onLine) throw
OfflineCheck == build = "script.js" /\ ~onLine

\* executeTerminalTask, up to its return, its throw or its await fetch
executeTerminalTask ==
    LET prompt == trim(promptInput) IN
    /\ calls + diagRuns < MaxRuns
    /\ calls' = calls + 1
    /\ UNCHANGED <<envVars, gateVars, promptInput, screenVars, diags, diagRuns,
                   resets>>
    /\ IF prompt = <<>>
       THEN /\ showError(EmptyPromptMsg)
            /\ UNCHANGED <<buttonVars, panelVars, tasks, fetches>>
       ELSE IF OfflineCheck
       THEN /\ outputContainer' = "none"
            /\ CatchFinally(OfflineMsg)
            /\ UNCHANGED <<tasks, fetches>>
       ELSE /\ hideError
            /\ setLoading(TRUE)
            /\ bootStatus' = "none"
            /\ outputContainer' = "none"
            /\ fetches' = fetches + 1
            /\ tasks' = tasks \cup
                    {[id |-> calls + 1, auth |-> trim(hfApiKey),
                      inputs |-> prompt]}

\* the fetch of a task settles and the task runs to its end
TaskSettles(t, outcome) ==
    LET res == IF build = "script.js" THEN TaskResult(outcome)
               ELSE TaskResultEarly(outcome) IN
    /\ Running
    /\ t \in tasks
    /\ tasks' = tasks \ {t}
    /\ UNCHANGED <<envVars, gateVars, promptInput, diags, countVars>>
    /\ IF res.reveal
       THEN /\ outputContainer' = "block"
            /\ typewriterType(Cardinality(reveals) + 1, res.text)
            /\ setLoading(FALSE)
            /\ UNCHANGED <<errorVars, bootStatus>>
       ELSE /\ CatchFinally(res.msg)
            /\ UNCHANGED <<outputContainer, screenVars>>

\* a click on the submit button, which sits in the dashboard
generateBtnClick ==
    /\ Running
    /\ Visible(appContainer)
    /\ ~generateBtn
    /\ executeTerminalTask

\* Ctrl/Cmd+Enter in the prompt field
promptInputKeydown ==
    /\ Running
    /\ Visible(appContainer)
    /\ executeTerminalTask

(***************************************************************************)
(* Connectivity diagnostics (script.js only).                              *)
(***************************************************************************)
DiagHeader == "RUNNING_SYSTEM_DIAGNOSTICS...\n\n"

\* the line log(msg) appends
DiagLine(msg) == "[DIAG] " \o msg \o "\n"

DiagComplete == "\nDIAGNOSTICS_COMPLETE."

\* status codes the unauthenticated GET of the endpoint may answer with
PingStatuses == {200, 401}

\* the lines logged before the first probe is sent
DiagPreamble(proto) ==
    <<DiagLine("BOM_STATUS: " \o (IF onLine THEN "ONLINE" ELSE "OFFLINE")),
      DiagLine("PROTOCOL: " \o proto)>>
    \o (IF proto = "file:"
        THEN <<DiagLine("WARN: FILE_PROTOCOL detected. Some browsers block cross-origin requests from local files.")>>
        ELSE <<>>)
    \o <<DiagLine("TESTING: CORE_INTERNET_REACHABILITY (google.com)...")>>

\* the catch block of the API chain, then the completion marker
DiagApiCatch ==
    <<DiagLine("FAIL: SUBSYSTEM_BLOCK_DETECTED"),
      DiagLine("ERR_DATA: " \o FailedToFetch),
      DiagLine("ANALYSIS: Your system or browser is specifically killing the API connection."),
      DiagLine("ACTION: 1. Whitelist 'api-inference.huggingface.co' in your Antivirus/Firewall."),
      DiagLine("ACTION: 2. If using a Corporate/School network, the API subdomain might be restricted."),
      DiagLine("ACTION: 3. Try a different browser (e.g., Firefox if on Chrome)."),
      DiagLine(DiagComplete)>>

\* as DiagStep, with the API chain outside any try: a rejected probe of the
\* chain ends the run with nothing more logged
DiagStepUncaught(pc, ok, status) ==
    CASE pc = 1 ->
           [pc |-> 2,
            lines |-> <<DiagLine(IF ok THEN "PASS: NET_FOUND"
                                 ELSE "FAIL: NET_REACH_ERROR"),
                        DiagLine("TESTING: HF_HUB_CONNECTIVITY...")>>]
      [] pc = 2 ->
           [pc |-> 3,
            lines |-> <<DiagLine(IF ok THEN "PASS: HUB_REACHED"
                                 ELSE "FAIL: HUB_UNREACHABLE (POSSIBLE_DNS_OR_FIREWALL)"),
                        DiagLine("TESTING: API_SUBDOMAIN_REACHABILITY...")>>]
      [] pc = 3 ->
           IF ok
           THEN [pc |-> 4,
                 lines |-> <<DiagLine("PASS: API_SUBDOMAIN_FOUND"),
                             DiagLine("TESTING: API_PHYSICAL_HANDSHAKE...")>>]
           ELSE [pc |-> 0, lines |-> <<>>]
      [] pc = 4 ->
           IF ok
           THEN [pc |-> 5,
                 lines |-> <<DiagLine("PASS: SUBDOMAIN_REACHED"),
                             DiagLine("TESTING: API_PREFLIGHT_AUTH...")>>]
           ELSE [pc |-> 0, lines |-> <<>>]
      [] pc = 5 ->
           IF ok
           THEN [pc |-> 0,
                 lines |-> <<DiagLine("PASS: API_STATUS_" \o ToString(status)),
                             DiagLine(DiagComplete)>>]
           ELSE [pc |-> 0, lines |-> <<>>]

\* as DiagStep, with one try around all five probes: the first probe that
\* fails ends the run
DiagStepOneTry(pc, ok, status) ==
    IF ~ok
    THEN [pc |-> 0, lines |-> DiagApiCatch]
    ELSE CASE pc = 1 ->
                [pc |-> 2,
                 lines |-> <<DiagLine("PASS: NET_FOUND"),
                             DiagLine("TESTING: HF_HUB_CONNECTIVITY...")>>]
           [] pc = 2 ->
                [pc |-> 3,
                 lines |-> <<DiagLine("PASS: HUB_REACHED"),
                             DiagLine("TESTING: API_SUBDOMAIN_REACHABILITY...")>>]
           [] pc = 3 ->
                [pc |-> 4,
                 lines |-> <<DiagLine("PASS: API_SUBDOMAIN_FOUND"),
                             DiagLine("TESTING: API_PHYSICAL_HANDSHAKE...")>>]
           [] pc = 4 ->
                [pc |-> 5,
                 lines |-> <<DiagLine("PASS: SUBDOMAIN_REACHED"),
                             DiagLine("TESTING: API_PREFLIGHT_AUTH...")>>]
           [] pc = 5 ->
                [pc |-> 0,
                 lines |-> <<DiagLine("PASS: API_STATUS_" \o ToString(status)),
                             DiagLine(DiagComplete)>>]

\* a run at probe pc whose fetch settled: the lines it logs up to its next
\* await (or its end), and where it then stands
DiagStep(pc, ok, status) ==
    CASE pc = 1 ->
           [pc |-> 2,
            lines |-> <<DiagLine(IF ok THEN "PASS: NET_FOUND"
                                 ELSE "FAIL: NET_REACH_ERROR"),
                        DiagLine("TESTING: HF_HUB_CONNECTIVITY...")>>]
      [] pc = 2 ->
           [pc |-> 3,
            lines |-> <<DiagLine(IF ok THEN "PASS: HUB_REACHED"
                                 ELSE "FAIL: HUB_UNREACHABLE (POSSIBLE_DNS_OR_FIREWALL)"),
                        DiagLine("TESTING: API_SUBDOMAIN_REACHABILITY...")>>]
      [] pc = 3 ->
           IF ok
           THEN [pc |-> 4,
                 lines |-> <<DiagLine("PASS: API_SUBDOMAIN_FOUND"),
                             DiagLine("TESTING: API_PHYSICAL_HANDSHAKE...")>>]
           ELSE [pc |-> 0, lines |-> DiagApiCatch]
      [] pc = 4 ->
           IF ok
           THEN [pc |-> 5,
                 lines |-> <<DiagLine("PASS: SUBDOMAIN_REACHED"),
                             DiagLine("TESTING: API_PREFLIGHT_AUTH...")>>]
           ELSE [pc |-> 0, lines |-> DiagApiCatch]
      [] pc = 5 ->
           IF ok
           THEN [pc |-> 0,
                 lines |-> <<DiagLine("PASS: API_STATUS_" \o ToString(status)),
                             DiagLine(DiagComplete)>>]
           ELSE [pc |-> 0, lines |-> DiagApiCatch]

\* runDiagnostics, up to the await of its first probe
runDiagnostics ==
    /\ build = "script.js"
    /\ calls + diagRuns < MaxRuns
    /\ diagRuns' = diagRuns + 1
    /\ \E proto \in Protocols :
          /\ \A d \in diags : d.protocol = proto
          /\ outputText' = <<DiagHeader>> \o DiagPreamble(proto)
          /\ diags' = diags \cup
                {[id |-> diagRuns + 1, protocol |-> proto, pc |-> 1,
                  lines |-> DiagPreamble(proto)]}
    /\ outputContainer' = "block"
    /\ bootStatus' = "none"
    /\ scrollPinned' = FALSE
    /\ UNCHANGED <<envVars, gateVars, promptInput, buttonVars, errorVars,
                   reveals, tasks, calls, fetches, resets>>

\* the probe a run awaits settles: the run logs and goes on to its next
\* await, or to its end (pc = 0)
ProbeSettles(d, ok, status) ==
    LET step == DiagStep(d.pc, ok, status) IN
    /\ Running
    /\ d \in diags
    /\ d.pc # 0
    /\ outputText' = outputText \o step.lines
    /\ scrollPinned' = FALSE
    /\ diags' = (diags \ {d}) \cup
            {[d EXCEPT !.pc = step.pc, !.lines = d.lines \o step.lines]}
    /\ UNCHANGED <<envVars, gateVars, promptInput, buttonVars, errorVars,
                   panelVars, reveals, tasks, countVars>>

\* a click on the diagnostics button, which sits in the dashboard
runDiagBtnClick ==
    /\ Running
    /\ Visible(appContainer)
    /\ runDiagnostics

Next ==
    \/ DismissAlert
    \/ \E raw \in RawKeys : TypeKey(raw)
    \/ \E raw \in RawPrompts : TypePrompt(raw)
    \/ ConnectivityChange
    \/ saveKeyBtnClick
    \/ apiKeyInputKeypress
    \/ resetKeyBtnClick
    \/ generateBtnClick
    \/ promptInputKeydown
    \/ \E t \in tasks, outcome \in Outcomes : TaskSettles(t, outcome)
    \/ \E r \in reveals : type(r)
    \/ \E r \in reveals : scrollTick(r)
    \/ diagRuns < MaxDiagRuns /\ runDiagBtnClick
    \/ \E d \in diags, ok \in BOOLEAN, status \in PingStatuses :
          ProbeSettles(d, ok, status)

Spec == Init /\ [][Next]_vars

(***************************************************************************)
(* The credential gate in front of the generation flow, from the page as   *)
(* loaded: every gate action, and the generation flow and reveal engine    *)
(* for the first MaxGateCalls submissions.                                 *)
(***************************************************************************)
GateNext ==
    \/ DismissAlert
    \/ \E raw \in RawKeys : TypeKey(raw)
    \/ \E raw \in RawPrompts : TypePrompt(raw)
    \/ ConnectivityChange
    \/ saveKeyBtnClick
    \/ apiKeyInputKeypress
    \/ resetKeyBtnClick
    \/ calls < MaxGateCalls /\ generateBtnClick
    \/ calls < MaxGateCalls /\ promptInputKeydown
    \/ \E t \in tasks, outcome \in Outcomes : TaskSettles(t, outcome)
    \/ \E r \in reveals : type(r)
    \/ \E r \in reveals : scrollTick(r)

GateSpec == Init /\ [][GateNext]_vars

(***************************************************************************)
(* The dashboard once a credential was accepted and for as long as it is   *)
(* kept.                                                                   *)
(***************************************************************************)
\* the state the page is in after " t" was typed and saved
DashboardInit ==
    /\ build \in Builds
    /\ onLine \in BOOLEAN
    /\ hfApiKey = <<"t">>
    /\ apiKeyInput = <<" ", "t">>
    /\ apiModal = "none"
    /\ appContainer = "flex"
    /\ focused = "promptInput"
    /\ alertOpen = FALSE
    /\ promptInput = <<>>
    /\ generateBtn = FALSE
    /\ btnText = "inline-block"
    /\ loader = "none"
    /\ errorContainer = InitialErrorDisplay
    /\ errorMessage = ""
    /\ bootStatus = InitialBootDisplay
    /\ outputContainer = InitialOutputDisplay
    /\ outputText = <<>>
    /\ scrollPinned = TRUE
    /\ tasks = {}
    /\ reveals = {}
    /\ diags = {}
    /\ calls = 0
    /\ fetches = 0
    /\ diagRuns = 0
    /\ resets = 0

\* generation flow and reveal engine
GenerationNext ==
    \/ \E raw \in RawPrompts : TypePrompt(raw)
    \/ ConnectivityChange
    \/ generateBtnClick
    \/ promptInputKeydown
    \/ \E t \in tasks, outcome \in Outcomes : TaskSettles(t, outcome)
    \/ \E r \in reveals : type(r)
    \/ \E r \in reveals : scrollTick(r)

GenerationSpec == DashboardInit /\ [][GenerationNext]_vars

\* generation on a network where every request that was sent settles
GenerationFairSpec ==
    /\ GenerationSpec
    /\ WF_vars(\E t \in tasks, outcome \in Outcomes : TaskSettles(t, outcome))

\* generation with timers that fire
RevealFairSpec ==
    /\ GenerationSpec
    /\ WF_vars(\E r \in reveals : type(r))

\* diagnostics alone
DiagnosticsNext ==
    \/ ConnectivityChange
    \/ diagRuns < MaxDiagRuns /\ runDiagBtnClick
    \/ \E d \in diags, ok \in BOOLEAN, status \in PingStatuses :
          ProbeSettles(d, ok, status)

DiagnosticsSpec == DashboardInit /\ [][DiagnosticsNext]_vars

\* diagnostics on a network where every probe that was sent settles
DiagnosticsFairSpec ==
    /\ DiagnosticsSpec
    /\ WF_vars(\E d \in diags, ok \in BOOLEAN, status \in PingStatuses :
                    ProbeSettles(d, ok, status))

\* diagnostics with the button clicked again while a run is under way
OverlapNext ==
    \/ runDiagBtnClick
    \/ \E d \in diags, ok \in BOOLEAN, status \in PingStatuses :
          ProbeSettles(d, ok, status)

OverlapSpec == DashboardInit /\ [][OverlapNext]_vars

\* generation flow, reveal engine and diagnostics side by side
DashboardNext ==
    \/ \E raw \in RawPrompts : TypePrompt(raw)
    \/ ConnectivityChange
    \/ generateBtnClick
    \/ promptInputKeydown
    \/ \E t \in tasks, outcome \in Outcomes : TaskSettles(t, outcome)
    \/ \E r \in reveals : type(r)
    \/ \E r \in reveals : scrollTick(r)
    \/ diagRuns < MaxDiagRuns /\ runDiagBtnClick
    \/ \E d \in diags, ok \in BOOLEAN, status \in PingStatuses :
          ProbeSettles(d, ok, status)

DashboardSpec == DashboardInit /\ [][DashboardNext]_vars

(***************************************************************************)
(* Properties.                                                             *)
(***************************************************************************)
\* a string that is empty once trimmed
Blank(s) == \A k \in 1..Len(s) : s[k] \in Whitespace

\* C1 as stated: every call of executeTerminalTask with a prompt that is not
\* blank issues exactly one request, whatever the connectivity flag says; a
\* call with a blank prompt issues none and shows the EmptyPrompt message.
C1_ExactlyOneRequest ==
    [][calls' = calls + 1 =>
        IF Blank(promptInput)
        THEN /\ fetches' = fetches
             /\ errorMessage' = EmptyPromptMsg
             /\ Visible(errorContainer')
        ELSE fetches' = fetches + 1]_vars

\* C1 amended: a call with a prompt that is not blank issues exactly one
\* request when the connectivity check lets it through (the flag reports
\* online, or the build has no check); when the check of script.js finds the
\* flag offline the call issues no request and shows the Offline message; a
\* call with a blank prompt issues none and shows the EmptyPrompt message.
C1_RequestsPerSubmit ==
    [][calls' = calls + 1 =>
        IF Blank(promptInput)
        THEN /\ fetches' = fetches
             /\ errorMessage' = EmptyPromptMsg
             /\ Visible(errorContainer')
        ELSE IF onLine \/ build = "part_000"
        THEN fetches' = fetches + 1
        ELSE /\ fetches' = fetches
             /\ errorMessage' = OfflineMsg
             /\ Visible(errorContainer')]_vars

\* one call issued its request, which is still in flight, and a later call
\* with a blank prompt issued none and showed the EmptyPrompt message
C1_Witness ==
    /\ calls = 2
    /\ fetches = 1
    /\ tasks # {}
    /\ Blank(promptInput)
    /\ errorMessage = EmptyPromptMsg
    /\ Visible(errorContainer)

\* C2 as stated: at most one generation request is in flight in every
\* reachable state.
C2_AtMostOneInFlight == Cardinality(tasks) <= 1

\* the message a status code is classified to
StatusMsg(status) ==
    CASE status = 401 -> AuthDeniedMsg
      [] status = 429 -> RateLimitedMsg
      [] status = 503 -> ModelLoadingMsg

\* the completed responses with status 401, 429 or 503, with every body
StatusOutcomes ==
    {o \in Outcomes : ~o.rejected /\ o.status \in {401, 429, 503}}

\* C3 as stated: a response with status 401, 429 or 503 ends its task with
\* the AuthDenied, RateLimited or ModelLoading message shown, whatever its
\* body is, and starts no reveal.
C3_StatusDecidesMessage ==
    [][\A t \in tasks \ tasks', o \in StatusOutcomes :
        TaskSettles(t, o)
        => /\ errorMessage' = StatusMsg(o.status)
           /\ Visible(errorContainer')
           /\ UNCHANGED <<outputText, reveals>>]_vars

\* a success body (a single object or a one-element array) without a usable
\* generated text
NoUsableText(o) ==
    /\ ~o.rejected
    /\ Ok(o.status)
    /\ o.body.json
    /\ Len(o.body.elems) = 1
    /\ \/ ~o.body.elems[1].has_text
       \/ o.body.elems[1].generated_text = <<>>

NoUsableTextOutcomes == {o \in Outcomes : NoUsableText(o)}

\* C4: a success response whose generated text is missing or empty ends
\* its task with the EmptyResult message shown; the reveal engine is not
\* invoked: the display surface is left as it is and no timer is started.
C4_EmptyResultNoReveal ==
    [][\A t \in tasks \ tasks', o \in NoUsableTextOutcomes :
        TaskSettles(t, o)
        => /\ errorMessage' = EmptyResultMsg
           /\ Visible(errorContainer')
           /\ t \notin tasks'
           /\ UNCHANGED <<outputText, scrollPinned, reveals>>]_vars

\* a request was answered without a usable text: EmptyResult is on screen
\* and no reveal ever started
C4_Witness ==
    /\ fetches = 1
    /\ tasks = {}
    /\ errorMessage = EmptyResultMsg
    /\ Visible(errorContainer)
    /\ reveals = {}
    /\ outputText = <<>>

\* one reveal was started and nothing else ever wrote to the display surface
Single == Cardinality(reveals) = 1 /\ diags = {}

\* the reveals a step starts
Started == {r \in reveals' : \A x \in reveals : x.id # r.id}

\* C5: a reveal starts by replacing whatever the surface held by the first
\* character of its target; while it is the only writer the surface is a
\* non-empty prefix of the target, every step leaves it as it is or appends
\* the one next character of the target, and nothing follows the last one.
C5_PrefixByPrefix ==
    /\ [](Single =>
            \A r \in reveals :
                /\ r.i \in 1..Len(r.text)
                /\ outputText = SubSeq(r.text, 1, r.i))
    /\ [][\A r \in Started : outputText' = SubSeq(r.text, 1, 1)]_vars
    /\ [][(Single /\ Single') =>
            \/ outputText' = outputText
            \/ \E r \in reveals :
                  /\ Len(outputText) < Len(r.text)
                  /\ outputText' =
                        Append(outputText, r.text[Len(outputText) + 1])]_vars

\* the only reveal ever started has run to its end: the surface holds the
\* whole target and both timers of the reveal are cleared
C5_Witness ==
    /\ Single
    /\ \E r \in reveals :
          /\ ~r.timer
          /\ ~r.scrollInterval
          /\ Len(r.text) >= 2
          /\ outputText = r.text

\* the reveal started last
Newest == CHOOSE r \in reveals : \A x \in reveals : x.id <= r.id

\* C6 as stated: once a reveal has started, the display surface only ever
\* holds a prefix of the newest target text (diagnostics left aside).
C6_NewestTargetOnly ==
    (reveals # {} /\ diags = {}) =>
        \E n \in 0..Len(Newest.text) : outputText = SubSeq(Newest.text, 1, n)

\* C7: exactly one of the entry modal and the dashboard is visible, and the
\* dashboard is the visible one exactly when the stored credential is not
\* empty.
C7_ExactlyOneView ==
    /\ Visible(apiModal) # Visible(appContainer)
    /\ Visible(appContainer) <=> hfApiKey # <<>>

\* after a credential was accepted and reset, a whitespace-only value was
\* submitted and refused
C7_Witness ==
    /\ resets >= 1
    /\ alertOpen
    /\ apiKeyInput # <<>>
    /\ Blank(apiKeyInput)
    /\ hfApiKey = <<>>
    /\ Visible(apiModal)

\* C8: every reset, from whatever state it is made, leaves the credential
\* empty, the entry modal visible and the dashboard hidden.
C8_ResetShowsModal ==
    [][resets' # resets =>
        /\ hfApiKey' = <<>>
        /\ Visible(apiModal')
        /\ ~Visible(appContainer')]_vars

\* the credential was reset while a request made with it was in flight
C8_Witness ==
    /\ resets = 1
    /\ \E t \in tasks : t.auth # <<>>
    /\ hfApiKey = <<>>
    /\ Visible(apiModal)
    /\ ~Visible(appContainer)

\* c is raw without its leading and trailing whitespace, and is not empty
IsTrimOf(c, raw) ==
    /\ c # <<>>
    /\ c[1] \notin Whitespace
    /\ c[Len(c)] \notin Whitespace
    /\ \E a \in 0..Len(raw) : \E b \in a..Len(raw) :
          /\ Blank(SubSeq(raw, 1, a))
          /\ SubSeq(raw, a + 1, b) = c
          /\ Blank(SubSeq(raw, b + 1, Len(raw)))

\* C10: whenever the dashboard is shown, after no reset or after any number
\* of reset / submit cycles, the gate is in the one state the submitted value
\* determines: its trimmed form stored, the dashboard shown, the modal hidden,
\* the prompt field focused.
C10_SubmitAfterResetSame ==
    Visible(appContainer) =>
        /\ IsTrimOf(hfApiKey, apiKeyInput)
        /\ appContainer = "flex"
        /\ apiModal = "none"
        /\ focused = "promptInput"

\* the dashboard is shown again after the credential was reset and
\* re-submitted as often as the model allows
C10_Witness ==
    /\ resets = MaxResets
    /\ Visible(appContainer)
    /\ hfApiKey = <<"t">>
    /\ apiKeyInput = <<" ", "t">>

\* a run has ended (pc = 0) having logged the completion marker as its last
\* line, and nowhere before
EndedWithMarker(d) ==
    /\ d.pc = 0
    /\ d.lines[Len(d.lines)] = DiagLine(DiagComplete)
    /\ \A k \in 1..(Len(d.lines) - 1) : d.lines[k] # DiagLine(DiagComplete)

\* C9: whatever its probes answer, a diagnostics run that has ended logged
\* the completion marker as its last line, no run ends in any other way, and
\* every run that was started ends once its probes settle.
C9_DiagnosticsComplete ==
    /\ [](\A d \in diags : d.pc = 0 => EndedWithMarker(d))
    /\ \A id \in 1..MaxDiagRuns :
          (\E d \in diags : d.id = id)
              ~> (\E d \in diags : d.id = id /\ EndedWithMarker(d))

\* a run whose API-subdomain probe failed has ended: it never tested the
\* model page, logged the block and then the completion marker
C9_Witness ==
    \E d \in diags :
        /\ EndedWithMarker(d)
        /\ \E k \in 1..Len(d.lines) :
              d.lines[k] = DiagLine("FAIL: SUBSYSTEM_BLOCK_DETECTED")
        /\ \A k \in 1..Len(d.lines) :
              d.lines[k] # DiagLine("TESTING: API_PHYSICAL_HANDSHAKE...")

\* the submit button is enabled and the busy indicator hidden
Idle ==
    /\ ~generateBtn
    /\ loader = "none"
    /\ btnText = "inline-block"

\* C11: every request that was sent leaves the flow once it settles, and
\* every step that ends a submission past the prompt check (a request
\* settling in any way, or the offline throw) leaves the submit button
\* enabled and the busy indicator hidden.
C11_EveryExitReenables ==
    /\ [][(tasks' # tasks /\ tasks' \subseteq tasks) => Idle']_vars
    /\ [][(calls' = calls + 1 /\ ~Blank(promptInput) /\ tasks' = tasks)
            => Idle']_vars
    /\ \A id \in 1..MaxRuns :
          (\E t \in tasks : t.id = id) ~> ~(\E t \in tasks : t.id = id)

\* a request failed in transport: its error is on screen, nothing is in
\* flight, the button is enabled again
C11_Witness ==
    /\ fetches = 1
    /\ tasks = {}
    /\ errorMessage \in {ConnErrorMsg, FailedToFetch}
    /\ Visible(errorContainer)
    /\ Idle

\* C12 as stated: while a generation request is in flight the submit button
\* is disabled and the busy indicator shown.
C12_BusyWhileInFlight ==
    tasks # {} =>
        /\ generateBtn
        /\ loader = "inline-block"
        /\ btnText = "none"

\* the surface holds the header and the lines of the diagnostics run started
\* last, in order, and nothing else
HoldsNewestRun(surface, runs) ==
    \E d \in runs :
        /\ d.id = diagRuns
        /\ surface = <<DiagHeader>> \o d.lines

\* the diagnostics run started last has not logged its completion marker
NewestRunInProgress == \E d \in diags : d.id = diagRuns /\ d.pc # 0

\* C13 as stated: the start of a diagnostics run replaces the surface by the
\* run's header and first lines, and from then until the run's completion
\* marker every step that starts no new reveal and no new run leaves the
\* surface holding only that run's header and lines, in order.
C13_NoStaleInterleaving ==
    /\ [][diagRuns' = diagRuns + 1
            => \E d \in diags' :
                  /\ d.id = diagRuns'
                  /\ outputText' = <<DiagHeader>> \o d.lines]_vars
    /\ [][(/\ NewestRunInProgress
           /\ HoldsNewestRun(outputText, diags)
           /\ diagRuns' = diagRuns
           /\ Started = {})
            => HoldsNewestRun(outputText', diags')]_vars

\* the run logged this message
Logged(d, msg) == \E k \in 1..Len(d.lines) : d.lines[k] = DiagLine(msg)

\* the line a run logs right before it sends each probe
TestingNet == "TESTING: CORE_INTERNET_REACHABILITY (google.com)..."

TestingHub == "TESTING: HF_HUB_CONNECTIVITY..."

TestingApi == "TESTING: API_SUBDOMAIN_REACHABILITY..."

TestingModelPage == "TESTING: API_PHYSICAL_HANDSHAKE..."

TestingEndpoint == "TESTING: API_PREFLIGHT_AUTH..."

\* C14 as stated: a run that has ended attempted every one of its five
\* probes, whichever of them failed.
C14_EveryProbeAttempted ==
    \A d \in diags :
        d.pc = 0 =>
            \A msg \in {TestingNet, TestingHub, TestingApi, TestingModelPage,
                         TestingEndpoint} : Logged(d, msg)

\* C14 amended: a run that has ended attempted the general-internet probe,
\* the main-host probe and the API-subdomain probe, whichever of them
\* failed; it attempted the model-page probe exactly when the API-subdomain
\* probe succeeded and the endpoint GET exactly when the model-page probe
\* succeeded; a failure in that chain is logged as a block.
C14_ProbesAttempted ==
    \A d \in diags :
        d.pc = 0 =>
            /\ Logged(d, TestingNet)
            /\ Logged(d, TestingHub)
            /\ Logged(d, TestingApi)
            /\ Logged(d, TestingModelPage)
                    <=> Logged(d, "PASS: API_SUBDOMAIN_FOUND")
            /\ Logged(d, TestingEndpoint)
                    <=> Logged(d, "PASS: SUBDOMAIN_REACHED")
            /\ Logged(d, "FAIL: SUBSYSTEM_BLOCK_DETECTED")
                    <=> \A st \in PingStatuses :
                            ~Logged(d, "PASS: API_STATUS_" \o ToString(st))

\* a run ended whose first two probes failed and whose API chain went
\* through to the status of the endpoint
C14_Witness ==
    \E d \in diags :
        /\ d.pc = 0
        /\ Logged(d, "FAIL: NET_REACH_ERROR")
        /\ Logged(d, "FAIL: HUB_UNREACHABLE (POSSIBLE_DNS_OR_FIREWALL)")
        /\ Logged(d, TestingEndpoint)
        /\ Logged(d, "PASS: API_STATUS_401")

\* C15 as stated: at most one diagnostic probe is outstanding at any time;
\* the model-page probe is sent only after the API-subdomain probe
\* succeeded and the endpoint GET only after the model-page probe succeeded.
C15_OneProbeAtATime ==
    /\ Cardinality({d \in diags : d.pc # 0}) <= 1
    /\ \A d \in diags :
          /\ Logged(d, TestingModelPage)
                => Logged(d, "PASS: API_SUBDOMAIN_FOUND")
          /\ Logged(d, TestingEndpoint)
                => Logged(d, "PASS: SUBDOMAIN_REACHED")

\* a scroll tick fires: the view, which was not pinned, is pinned again
TickFires == ~scrollPinned /\ scrollPinned'

\* C16 as stated: a scroll tick fires only for a reveal that has not yet
\* appended its last character, and a reveal whose character chain has
\* ended has no scroll tick scheduled.
C16_TickStopsAtLastChar ==
    /\ [][TickFires
            => \E r \in reveals : r.scrollInterval /\ r.i < Len(r.text)]_vars
    /\ [](\A r \in reveals : ~r.timer => ~r.scrollInterval)

\* C16 amended: the scroll tick of a reveal is cleared by the first timer
\* callback that finds no character left, one timer period after the last
\* character was appended, and may fire until then; a tick fires only for
\* a reveal whose character timer is still scheduled; every reveal that
\* was started gets there, overlapping or not, with the whole target
\* consumed and nothing left scheduled.
C16_TickStopsWithChain ==
    /\ [][TickFires => \E r \in reveals : r.scrollInterval /\ r.timer]_vars
    /\ [](\A r \in reveals :
            /\ ~r.timer => (~r.scrollInterval /\ r.i = Len(r.text))
            /\ r.timer => r.scrollInterval)
    /\ \A id \in 1..MaxRuns :
          (\E r \in reveals : r.id = id)
              ~> (\E r \in reveals :
                      r.id = id /\ ~r.timer /\ ~r.scrollInterval)

\* two reveals overlapped on the surface and both have run to their end
\* with nothing left scheduled, the view pinned by a tick
C16_Witness ==
    /\ Cardinality(reveals) = 2
    /\ \A r \in reveals : ~r.timer /\ ~r.scrollInterval
    /\ Len(outputText) > MaxTextLen
    /\ scrollPinned

\* C17: a submit of a value that is empty once trimmed leaves the stored
\* credential, the entry modal, the dashboard and everything else but the
\* notice as they are; a submit of any other value stores exactly its
\* trimmed form, hides the modal and shows the dashboard.
C17_RefusedSubmitChangesNothing ==
    [][(saveKeyBtnClick \/ apiKeyInputKeypress) =>
        IF Blank(apiKeyInput)
        THEN /\ alertOpen'
             /\ UNCHANGED <<hfApiKey, apiModal, appContainer, apiKeyInput,
                            focused, promptInput, buttonVars, errorVars,
                            panelVars, screenVars, tasks, diags>>
        ELSE /\ IsTrimOf(hfApiKey', apiKeyInput)
             /\ ~Visible(apiModal')
             /\ Visible(appContainer')
             /\ ~alertOpen']_vars

\* a whitespace-only value was submitted on the page as loaded and refused:
\* the notice is up, no credential is stored, the modal is still shown
C17_Witness ==
    /\ resets = 0
    /\ alertOpen
    /\ apiKeyInput = <<" ">>
    /\ hfApiKey = <<>>
    /\ Visible(apiModal)
    /\ ~Visible(appContainer)

\* a step that ends a submission with the Offline message: nothing is sent,
\* no reveal starts, the button is enabled again
ShortCircuits ==
    /\ errorMessage' = OfflineMsg
    /\ Visible(errorContainer')
    /\ fetches' = fetches
    /\ tasks' = tasks
    /\ UNCHANGED <<outputText, reveals>>
    /\ Idle'

\* C18 as stated: every submission of a prompt that is not blank, made
\* while the runtime reports no connectivity, short-circuits.
C18_OfflineShortCircuits ==
    [][(calls' = calls + 1 /\ ~Blank(promptInput) /\ ~onLine)
        => ShortCircuits]_vars

\* C18 amended: in script.js such a submission short-circuits; in part_000,
\* which never looks at the connectivity flag, it sends its request and
\* enters Requesting as any other submission does.
C18_OfflineShortCircuitsWhereChecked ==
    [][(calls' = calls + 1 /\ ~Blank(promptInput) /\ ~onLine) =>
        IF build = "script.js"
        THEN ShortCircuits
        ELSE /\ fetches' = fetches + 1
             /\ Cardinality(tasks') = Cardinality(tasks) + 1
             /\ generateBtn'
             /\ ~Visible(errorContainer')]_vars

\* script.js, offline: the one submission made sent nothing and left the
\* Offline message on the status panel, the button enabled
C18_Witness ==
    /\ build = "script.js"
    /\ ~onLine
    /\ calls = 1
    /\ fetches = 0
    /\ ~Blank(promptInput)
    /\ errorMessage = OfflineMsg
    /\ Visible(errorContainer)
    /\ Visible(bootStatus)
    /\ reveals = {}
    /\ Idle

\* C19 as stated: the status panel and the output panel are never both
\* visible.
C19_NeverBothPanels == ~(Visible(bootStatus) /\ Visible(outputContainer))

\* C20 as stated: every request in flight was issued with a credential that
\* is not empty, a submission is made only with the dashboard shown and a
\* credential stored, and a reveal starts only with the dashboard shown and
\* a credential stored.
C20_RevealOnlyBehindOpenGate ==
    /\ [](\A t \in tasks : t.auth # <<>>)
    /\ [][calls' = calls + 1
            => (Visible(appContainer) /\ hfApiKey # <<>>)]_vars
    /\ [][Started # {}
            => (Visible(appContainer') /\ hfApiKey' # <<>>)]_vars

====
